---- MODULE Spec2Model ----
(***************************************************************************)
(* Model of target_selector.py: get_neighbors and order_by_best_target.    *)
(*                                                                         *)
(* A DataFrame is a sequence of rows; a row is a function from column      *)
(* names to values, with the row's index label under the key "index".      *)
(* Floats are modelled by exact integers: sky coordinates and magnitudes   *)
(* are whole numbers, hour angles are kept in units of 1/HourScale hour    *)
(* (so that (RA - delta*(360/365))/15 is the integer 73*RA - 72*delta),    *)
(* and a missing value (pandas NaN) is the value NaN below, on which       *)
(* every comparison is false and through which arithmetic propagates.      *)
(***************************************************************************)
EXTENDS Integers, Sequences, FiniteSets, TLC

\* ------------------------------------------------------------- bounds
MaxRows == 2        \* rows of the candidate table
MaxCat == 3         \* rows of the neighbor catalog in the direct get_neighbors calls

\* ------------------------------------------------------- float values
NaN == -99999
HourScale == 1095   \* 15 * 365 / 5: one hour, in the units of delta_sun_RA
Sentinel == 99

IsNaN(x) == x = NaN
Sub(a, b) == IF IsNaN(a) \/ IsNaN(b) THEN NaN ELSE a - b
Abs(a) == IF IsNaN(a) THEN NaN ELSE IF a < 0 THEN 0 - a ELSE a
Lt(a, b) == ~IsNaN(a) /\ ~IsNaN(b) /\ a < b
Le(a, b) == ~IsNaN(a) /\ ~IsNaN(b) /\ a <= b
Gt(a, b) == Lt(b, a)
Ge(a, b) == Le(b, a)
Floor(a, scale) == IF IsNaN(a) THEN NaN ELSE a \div scale
Min(a, b) == IF a <= b THEN a ELSE b
Max(a, b) == IF a >= b THEN a ELSE b

\* column assignment df[c] = v on one row
SetCol(row, c, v) == [k \in DOMAIN row \cup {c} |-> IF k = c THEN v ELSE row[k]]

\* ------------------------------------------------------ get_neighbors
NeighborMask_inclusive(c, ra, dec, diameter, v_cut) ==
    /\ ~IsNaN(ra) /\ ~IsNaN(dec)
    /\ 120 * c.RA >= 120 * ra - diameter
    /\ 120 * c.RA <= 120 * ra + diameter
    /\ 120 * c.DEC >= 120 * dec - diameter
    /\ 120 * c.DEC <= 120 * dec + diameter
    /\ c.Vmag <= v_cut

\* radius = diameter/2/60; x > ra - radius is 120*x > 120*ra - diameter
NeighborMask(c, ra, dec, diameter, v_cut) ==
    /\ ~IsNaN(ra) /\ ~IsNaN(dec)
    /\ 120 * c.RA > 120 * ra - diameter
    /\ 120 * c.RA < 120 * ra + diameter
    /\ 120 * c.DEC > 120 * dec - diameter
    /\ 120 * c.DEC < 120 * dec + diameter
    /\ c.Vmag < v_cut

get_neighbors(ra, dec, diameter, v_cut, catalog) ==
    LET neighbors == [j \in DOMAIN catalog |->
                         NeighborMask(catalog[j], ra, dec, diameter, v_cut)]
        sum == Cardinality({j \in DOMAIN catalog : neighbors[j]})
    IN  IF sum >= 2 THEN sum - 1 ELSE 0

\* ------------------------------------------------------ date handling
IsLeap(y) == (y % 4 = 0 /\ y % 100 # 0) \/ y % 400 = 0

DaysInMonth(y, m) ==
    IF m = 2 THEN (IF IsLeap(y) THEN 29 ELSE 28)
    ELSE IF m \in {4, 6, 9, 11} THEN 30 ELSE 31

\* datetime.strptime(s, "%Y-%m-%d") succeeds; a date string is <<sep, y, m, d>>
Parses(s) ==
    /\ s[1] = "-"
    /\ s[2] \in 1..9999
    /\ s[3] \in 1..12
    /\ s[4] \in 1..DaysInMonth(s[2], s[3])

RECURSIVE DaysBefore(_, _)
DaysBefore(y, m) == IF m = 1 THEN 0 ELSE DaysBefore(y, m - 1) + DaysInMonth(y, m - 1)

DayOfYear(y, m, d) == DaysBefore(y, m) + d

\* (observation_date_dt - autumn_equinox).days
EquinoxDelta(s) == DayOfYear(s[2], s[3], s[4]) - DayOfYear(s[2], 3, 20)

\* ------------------------------------------------------------ sorting
\* DataFrame.sort_values(by=[...]): ascending, stable, NaN last on each key
SortKeys_swapped == <<"abs_delta_dec_lat", "abs_delta_sun_RA_floor">>

SortKeys == <<"abs_delta_sun_RA_floor", "abs_delta_dec_lat">>

KeyBefore(a, b) == IF IsNaN(a) THEN FALSE ELSE IF IsNaN(b) THEN TRUE ELSE a < b

RECURSIVE RowBefore(_, _, _)
RowBefore(r, s, by) ==
    IF by = <<>> THEN FALSE
    ELSE \/ KeyBefore(r[Head(by)], s[Head(by)])
         \/ /\ r[Head(by)] = s[Head(by)]
            /\ RowBefore(r, s, Tail(by))

\* position of r among the rows already placed: after every row not after it
InsertAt_unstable(placed, r, by) ==
    Cardinality({j \in DOMAIN placed : RowBefore(placed[j], r, by)})

InsertAt(placed, r, by) ==
    Cardinality({j \in DOMAIN placed : ~RowBefore(r, placed[j], by)})

RECURSIVE SortValues(_, _)
SortValues(t, by) ==
    IF t = <<>> THEN <<>>
    ELSE LET placed == SortValues(SubSeq(t, 1, Len(t) - 1), by)
             r == t[Len(t)]
             p == InsertAt(placed, r, by)
         IN  SubSeq(placed, 1, p) \o <<r>> \o SubSeq(placed, p + 1, Len(placed))

\* ----------------------------------------------------- derived columns
\* np.floor(abs(abs_delta_sun_RA - delta_to_sun))
FloorBin(row, dts) ==
    Floor(Abs(Sub(row["abs_delta_sun_RA"], HourScale * dts)), HourScale)

WithFeatures(row, delta, lat, dts) ==
    LET r1 == SetCol(row, "delta_sun_RA",
                     IF IsNaN(row["RA"]) THEN NaN ELSE 73 * row["RA"] - 72 * delta)
        r2 == SetCol(r1, "abs_delta_sun_RA", Abs(r1["delta_sun_RA"]))
        r3 == SetCol(r2, "abs_delta_sun_RA_floor", FloorBin(r2, dts))
    IN  SetCol(r3, "abs_delta_dec_lat", Abs(Sub(row["DEC"], lat)))

\* .fillna(99).astype(int) on the recomputed floor
WithBin(row, dts) ==
    LET f == FloorBin(row, dts)
    IN  SetCol(row, "abs_delta_sun_RA_floor", IF IsNaN(f) THEN Sentinel ELSE f)

DerivedColumns == <<"abs_delta_sun_RA", "abs_delta_sun_RA_floor", "abs_delta_dec_lat">>

\* ------------------------------------------------------------- filters
\* one "<column> <operator> <literal>" expression on one row, as query evaluates it
FilterHolds(row, f) ==
    LET v == row[f.col]
    IN  CASE f.op = "<=" -> Le(v, f.lit)
          [] f.op = "<"  -> Lt(v, f.lit)
          [] f.op = ">=" -> Ge(v, f.lit)
          [] f.op = ">"  -> Gt(v, f.lit)
          [] f.op = "==" -> ~IsNaN(v) /\ v = f.lit
          [] f.op = "!=" -> IsNaN(v) \/ v # f.lit

\* " & ".join(f"({filt})" for filt in filters)
RECURSIVE JoinedFilter_any(_, _)
JoinedFilter_any(row, fs) ==
    IF Len(fs) = 1 THEN FilterHolds(row, fs[1])
    ELSE FilterHolds(row, Head(fs)) \/ JoinedFilter_any(row, Tail(fs))

RECURSIVE JoinedFilter(_, _)
JoinedFilter(row, fs) ==
    IF Len(fs) = 1 THEN FilterHolds(row, fs[1])
    ELSE FilterHolds(row, Head(fs)) /\ JoinedFilter(row, Tail(fs))

Query(t, fs) ==
    LET keep(row) == JoinedFilter(row, fs)
    IN  SelectSeq(t, keep)

\* ----------------------------------------------------------- selection
HeadRows_extra(t, k) ==
    IF k >= 0 THEN SubSeq(t, 1, Min(k + 1, Len(t)))
    ELSE SubSeq(t, 1, Max(Len(t) + k, 0))

\* DataFrame.head(k): the first k rows, or all but the last -k when k < 0
HeadRows(t, k) ==
    IF k >= 0 THEN SubSeq(t, 1, Min(k, Len(t)))
    ELSE SubSeq(t, 1, Max(Len(t) + k, 0))

Range(s) == {s[j] : j \in DOMAIN s}

\* df[columns] on one row; the index label stays with the row
Project(row, cols) == [c \in Range(cols) \cup {"index"} |-> row[c]]

\* df.loc[labels]: the rows carrying the labels, in the order of the labels
LocRows(t, labels) ==
    [k \in DOMAIN labels |-> t[CHOOSE j \in DOMAIN t : t[j]["index"] = labels[k]]]

NewName(c) ==
    CASE c = "abs_delta_sun_RA" -> "Delta_to_Sun"
      [] c = "abs_delta_sun_RA_floor" -> "Bin"
      [] c = "abs_delta_dec_lat" -> "Lat_to_Dec"
      [] OTHER -> c

RenameRow(row) ==
    [c \in {NewName(k) : k \in DOMAIN row} |->
        row[CHOOSE k \in DOMAIN row : NewName(k) = c]]

\* a, line = next(it): the row the iterator yields after it_ rows
RowAt_byCount(t, it_, i_) == t[i_ + 1]

RowAt(t, it_, i_) == t[it_ + 1]

\* while i < n
LoopGuard_inclusive(i_, n_) == i_ <= n_

LoopGuard(i_, n_) == i_ < n_

\* if neighbor_count:
Truthy_always(c) == TRUE

Truthy(c) == c # 0

\* --------------------------------------------------------------- state
VARIABLES
    target_table,         \* the caller's candidate DataFrame (one object, mutated in place)
    observation_date,     \* <<separator, year, month, day>>
    observatory_latitude,
    filters,              \* the caller's list of filter expressions
    desired_columns,      \* the caller's list of column names
    delta_to_sun,
    n,
    neighbor_getter,      \* TRUE: partial(get_neighbors, ...); FALSE: None
    field_diameter, mag_cut, neighbor_catalog,   \* what the partial binds
    pc,                   \* position in the running function
    delta,                \* days since the equinox
    local_table,          \* the function's own binding of target_table after query
    i, it, with_neighbor, counts, neighbor_count,
    final_result,
    printed,              \* number of "Couldn't find the n targets" lines
    calls,                \* index labels the neighbor function was called on
    table0, filters0,     \* the candidate table and the filter list as first passed
    call, result1,        \* which call is running; what the first call returned
    same_object,          \* the second call got the first call's DataFrame object
    position              \* <<ra, dec>> of a direct get_neighbors call

inputs == <<observation_date, observatory_latitude, filters, delta_to_sun, n,
            neighbor_getter, field_diameter, mag_cut, neighbor_catalog, table0,
            filters0, position>>
locals == <<delta, local_table, i, it, with_neighbor, counts, neighbor_count>>
harness == <<call, result1, same_object>>
vars == <<target_table, desired_columns, pc, final_result, printed, calls,
          harness, inputs, locals>>

\* ------------------------------------------------------------- inputs
RAValues == {NaN, 135, 150}
DECValues == {NaN, -20, -30}
MagValues == {8, 12}

\* pd.read_csv gives the rows a RangeIndex
Tables ==
    UNION {{[j \in 1..k |-> [index |-> j - 1, RA |-> f[j][1], DEC |-> f[j][2],
                             magMax |-> f[j][3]]] :
              f \in [1..k -> RAValues \X DECValues \X MagValues]} : k \in 0..MaxRows}

Dates == {<<"-", 2022, 3, 20>>, <<"-", 2022, 4, 20>>, <<"-", 2022, 2, 30>>,
          <<"/", 2022, 9, 1>>}

NValues == {-1, 0, 1, 2}

OutputColumns == <<"RA", "DEC", "magMax">>

FilterLists ==
    {<<>>,
     <<[col |-> "magMax", op |-> "<=", lit |-> 8]>>,
     <<[col |-> "magMax", op |-> "<=", lit |-> 8],
       [col |-> "DEC", op |-> ">=", lit |-> -25]>>}

Hipparcos ==
    <<[RA |-> 135, DEC |-> -20, Vmag |-> 5], [RA |-> 136, DEC |-> -20, Vmag |-> 6],
      [RA |-> 150, DEC |-> -20, Vmag |-> 4], [RA |-> 150, DEC |-> -21, Vmag |-> 5],
      [RA |-> 151, DEC |-> -20, Vmag |-> 6], [RA |-> 135, DEC |-> -30, Vmag |-> 5],
      [RA |-> 135, DEC |-> -31, Vmag |-> 9]>>

NoLocals ==
    /\ delta = 0 /\ local_table = <<>> /\ i = 0 /\ it = 0
    /\ with_neighbor = <<>> /\ counts = <<>> /\ neighbor_count = 0

Init ==
    /\ target_table \in Tables
    /\ table0 = target_table
    /\ observation_date \in Dates
    /\ observatory_latitude = -22
    /\ filters \in FilterLists
    /\ filters0 = filters
    /\ desired_columns = OutputColumns
    /\ delta_to_sun = 9
    /\ n \in NValues
    /\ neighbor_getter \in BOOLEAN
    /\ field_diameter = 180 /\ mag_cut = 8 /\ neighbor_catalog = Hipparcos
    /\ position = <<NaN, NaN>>
    /\ pc = "parse"
    /\ NoLocals
    /\ final_result = <<>> /\ printed = 0 /\ calls = <<>>
    /\ call = 1 /\ result1 = <<>> /\ same_object = FALSE

\* ------------------------------------------------ order_by_best_target
\* the neighbor function applied to one row
neighbor(line) ==
    get_neighbors(line["RA"], line["DEC"], field_diameter, mag_cut, neighbor_catalog)

ParseDate_late ==
    /\ pc = "parse"
    /\ IF Parses(observation_date)
       THEN /\ delta' = EquinoxDelta(observation_date)
            /\ pc' = "features"
            /\ UNCHANGED target_table
       ELSE /\ pc' = "raised"
            /\ target_table' = [j \in DOMAIN target_table |->
                   WithFeatures(target_table[j], 0, observatory_latitude, delta_to_sun)]
            /\ UNCHANGED delta
    /\ UNCHANGED <<desired_columns, final_result, printed, calls, harness, inputs, local_table, i, it, with_neighbor, counts,
                   neighbor_count>>

ParseDate ==
    /\ pc = "parse"
    /\ IF Parses(observation_date)
       THEN /\ delta' = EquinoxDelta(observation_date)
            /\ pc' = "features"
       ELSE /\ pc' = "raised"
            /\ UNCHANGED delta
    /\ UNCHANGED <<target_table, desired_columns, final_result, printed, calls, harness, inputs, local_table, i, it, with_neighbor, counts,
                   neighbor_count>>

ComputeFeatures ==
    /\ pc = "features"
    /\ target_table' = [j \in DOMAIN target_table |->
           WithFeatures(target_table[j], delta, observatory_latitude, delta_to_sun)]
    /\ pc' = "sort"
    /\ UNCHANGED <<desired_columns, final_result, printed, calls, harness,
                   inputs, locals>>

SortInPlace ==
    /\ pc = "sort"
    /\ target_table' = SortValues(target_table, SortKeys)
    /\ pc' = "bins"
    /\ UNCHANGED <<desired_columns, final_result, printed, calls, harness,
                   inputs, locals>>

FillBins ==
    /\ pc = "bins"
    /\ target_table' = [j \in DOMAIN target_table |->
                           WithBin(target_table[j], delta_to_sun)]
    /\ pc' = "extend"
    /\ UNCHANGED <<desired_columns, final_result, printed, calls, harness,
                   inputs, locals>>

ExtendColumns ==
    /\ pc = "extend"
    /\ desired_columns' = desired_columns \o DerivedColumns
    /\ pc' = "filter"
    /\ UNCHANGED <<target_table, final_result, printed, calls, harness,
                   inputs, locals>>

Filtered_in_place(t, fs) == IF fs # <<>> THEN Query(t, fs) ELSE t

\* what the caller's DataFrame holds after target_table = target_table.query(...)
AfterQuery(t, fs) == t

ApplyFilters ==
    /\ pc = "filter"
    /\ local_table' = IF filters # <<>> THEN Query(target_table, filters)
                      ELSE target_table
    /\ target_table' = AfterQuery(target_table, filters)
    /\ i' = 0 /\ it' = 0 /\ with_neighbor' = <<>> /\ counts' = <<>>
    /\ pc' = IF neighbor_getter THEN "scan" ELSE "head"
    /\ UNCHANGED <<desired_columns, final_result, printed, calls, harness,
                   inputs, delta, neighbor_count>>

\* one pass of the while body with a row left in the iterator
ScanNext ==
    /\ pc = "scan"
    /\ LoopGuard(i, n)
    /\ it < Len(local_table)
    /\ LET line == RowAt(local_table, it, i)
           a == line["index"]
           c == neighbor(line)
       IN  /\ it' = it + 1
           /\ neighbor_count' = c
           /\ calls' = Append(calls, a)
           /\ IF Truthy(c)
              THEN /\ with_neighbor' = Append(with_neighbor, a)
                   /\ counts' = Append(counts, c)
                   /\ i' = i + 1
              ELSE UNCHANGED <<with_neighbor, counts, i>>
    /\ UNCHANGED <<target_table, desired_columns, pc, final_result, printed, harness, inputs, delta, local_table>>

\* next(it) raises StopIteration: print and break
ScanExhausted ==
    /\ pc = "scan"
    /\ LoopGuard(i, n)
    /\ it = Len(local_table)
    /\ printed' = printed + 1
    /\ pc' = "loc"
    /\ UNCHANGED <<target_table, desired_columns, final_result, calls, harness, inputs, locals>>

\* the while condition is false
ScanDone ==
    /\ pc = "scan"
    /\ ~LoopGuard(i, n)
    /\ pc' = "loc"
    /\ UNCHANGED <<target_table, desired_columns, final_result, printed, calls, harness, inputs, locals>>

CollectNeighbors ==
    /\ pc = "loc"
    /\ LET picked == LocRows(local_table, with_neighbor)
       IN  final_result' = [k \in DOMAIN picked |->
               SetCol(Project(picked[k], desired_columns), "n_neighbor", counts[k])]
    /\ pc' = "rename"
    /\ UNCHANGED <<target_table, desired_columns, printed, calls, harness,
                   inputs, locals>>

TakeHead ==
    /\ pc = "head"
    /\ LET top == HeadRows(local_table, n)
       IN  final_result' = [k \in DOMAIN top |-> Project(top[k], desired_columns)]
    /\ pc' = "rename"
    /\ UNCHANGED <<target_table, desired_columns, printed, calls, harness,
                   inputs, locals>>

RenameAndReturn ==
    /\ pc = "rename"
    /\ final_result' = [k \in DOMAIN final_result |-> RenameRow(final_result[k])]
    /\ pc' = "done"
    /\ UNCHANGED <<target_table, desired_columns, printed, calls, harness,
                   inputs, locals>>

\* the caller calls again with identical arguments: a fresh copy of the column
\* list, and either the DataFrame object of the first call or a fresh load of it
CallAgain ==
    /\ pc = "done"
    /\ call = 1
    /\ \E same \in BOOLEAN :
           /\ same_object' = same
           /\ target_table' = IF same THEN target_table ELSE table0
    /\ desired_columns' = OutputColumns
    /\ result1' = final_result
    /\ call' = 2
    /\ pc' = "parse"
    /\ final_result' = <<>> /\ printed' = 0 /\ calls' = <<>>
    /\ delta' = 0 /\ local_table' = <<>> /\ i' = 0 /\ it' = 0
    /\ with_neighbor' = <<>> /\ counts' = <<>> /\ neighbor_count' = 0
    /\ UNCHANGED inputs

Next ==
    \/ ParseDate
    \/ ComputeFeatures
    \/ SortInPlace
    \/ FillBins
    \/ ExtendColumns
    \/ ApplyFilters
    \/ ScanNext
    \/ ScanExhausted
    \/ ScanDone
    \/ CollectNeighbors
    \/ TakeHead
    \/ RenameAndReturn

Spec == Init /\ [][Next]_vars

\* two calls in a row with identical arguments
NextTwice == Next \/ CallAgain

InitTwice == Init /\ observation_date = <<"-", 2022, 4, 20>>

SpecTwice == InitTwice /\ [][NextTwice]_vars

\* ----------------------------------------- get_neighbors called directly
Positions == {<<135, -20>>, <<136, -21>>, <<NaN, -20>>}
Diameters == {60, 120, 240}
Cutoffs == {7, 8}

Catalogs ==
    UNION {[1..k -> [RA : {134, 135, 136}, DEC : {-21, -20}, Vmag : {6, 8}]] :
             k \in 0..MaxCat}

InitNeighbors ==
    /\ position \in Positions
    /\ field_diameter \in Diameters
    /\ mag_cut \in Cutoffs
    /\ neighbor_catalog \in Catalogs
    /\ pc = "get_neighbors"
    /\ target_table = <<>> /\ table0 = <<>>
    /\ observation_date = <<"-", 2022, 3, 20>>
    /\ observatory_latitude = -22
    /\ filters = <<>> /\ filters0 = <<>>
    /\ desired_columns = OutputColumns
    /\ delta_to_sun = 9
    /\ n = 0
    /\ neighbor_getter = FALSE
    /\ NoLocals
    /\ final_result = <<>> /\ printed = 0 /\ calls = <<>>
    /\ call = 1 /\ result1 = <<>> /\ same_object = FALSE

CallGetNeighbors ==
    /\ pc = "get_neighbors"
    /\ neighbor_count' = get_neighbors(position[1], position[2], field_diameter,
                                       mag_cut, neighbor_catalog)
    /\ pc' = "returned"
    /\ UNCHANGED <<target_table, desired_columns, final_result, printed, calls,
                   harness, inputs, delta, local_table, i, it, with_neighbor, counts>>

NextNeighbors == CallGetNeighbors

SpecNeighbors == InitNeighbors /\ [][NextNeighbors]_vars

\* ------------------------------------------- a call in neighbor mode
\* the candidates are all as bright as the cut, so only DEC decides the filters
InitScan ==
    /\ Init
    /\ neighbor_getter
    /\ observation_date = <<"-", 2022, 4, 20>>
    /\ \A j \in DOMAIN target_table : target_table[j]["magMax"] = 8

NextScan ==
    \/ ParseDate
    \/ ComputeFeatures
    \/ SortInPlace
    \/ FillBins
    \/ ExtendColumns
    \/ ApplyFilters
    \/ ScanNext
    \/ ScanExhausted
    \/ ScanDone
    \/ CollectNeighbors
    \/ RenameAndReturn

\* single-threaded, synchronous: a running call always takes its next step
FairSpec == InitScan /\ [][NextScan]_vars /\ WF_vars(NextScan)

\* ------------------------------------------------------------- claims
\* what the claims are stated with, written from the inputs
IndexOf(t) == [k \in DOMAIN t |-> t[k]["index"]]
Take(t, k) == SubSeq(t, 1, Min(Max(k, 0), Len(t)))
Returned == pc = "done"

\* row passes every filter of the caller's list
PassesEvery(row) == \A k \in DOMAIN filters : FilterHolds(row, filters[k])
PassCount == Cardinality({j \in DOMAIN table0 : PassesEvery(table0[j])})

\* catalog rows strictly inside the box around (ra, dec) and below the cutoff
InRange(c, ra, dec) ==
    /\ ~IsNaN(ra) /\ ~IsNaN(dec)
    /\ 120 * Abs(c.RA - ra) < field_diameter
    /\ 120 * Abs(c.DEC - dec) < field_diameter
    /\ c.Vmag < mag_cut
MatchCount(ra, dec) ==
    Cardinality({j \in DOMAIN neighbor_catalog : InRange(neighbor_catalog[j], ra, dec)})
ExpectedNeighbors(ra, dec) == Max(MatchCount(ra, dec) - 1, 0)
Qualifies(row) == ExpectedNeighbors(row["RA"], row["DEC"]) # 0
Qualifying == SelectSeq(local_table, Qualifies)

\* C1 (as claimed): the returned table never has more than n rows, for every
\* integer n, in both modes.
C1_AtMostN ==
    Returned => Len(final_result) <= n

\* C1 (amended): for n >= 0 the returned table has at most n rows in both modes;
\* for n < 0 the scan returns no row and head(n) returns the filtered table
\* without its last -n rows.
C1_AtMostN_amended ==
    Returned =>
        IF n >= 0 THEN Len(final_result) <= n
        ELSE IF neighbor_getter THEN Len(final_result) = 0
        ELSE Len(final_result) = Max(PassCount + n, 0)

C1_Witness ==
    /\ Returned /\ n = 1 /\ PassCount = 2 /\ Len(final_result) = 1

C3_NeighborCounts ==
    (Returned /\ neighbor_getter) =>
        \A k \in DOMAIN final_result :
            /\ final_result[k]["n_neighbor"] >= 1
            /\ final_result[k]["n_neighbor"] =
                   ExpectedNeighbors(final_result[k]["RA"], final_result[k]["DEC"])

C3_Witness ==
    /\ Returned /\ neighbor_getter
    /\ Len(final_result) = 1
    /\ Len(calls) = 2
    /\ final_result[1]["n_neighbor"] = 2

\* C4: get_neighbors returns max(m - 1, 0), m the number of catalog rows strictly
\* inside the box and strictly below the cutoff; the result is never negative.
C4_GetNeighbors ==
    pc = "returned" =>
        /\ neighbor_count = Max(MatchCount(position[1], position[2]) - 1, 0)
        /\ neighbor_count >= 0

C4_Witness ==
    /\ pc = "returned"
    /\ neighbor_count = 1
    /\ MatchCount(position[1], position[2]) = 2
    /\ \E j \in DOMAIN neighbor_catalog :
           \/ 120 * Abs(neighbor_catalog[j].RA - position[1]) = field_diameter
           \/ neighbor_catalog[j].Vmag = mag_cut

\* C5: without a neighbor function and with n >= 0, the result is exactly the
\* first n rows of the whole sorted table with the filter-failing rows removed;
\* every returned row passes every filter; an empty filter list removes nothing.
C5_HeadOfFiltered ==
    (Returned /\ ~neighbor_getter /\ n >= 0) =>
        LET passing == SelectSeq(target_table, PassesEvery)
        IN  /\ IndexOf(final_result) = IndexOf(Take(passing, n))
            /\ \A k \in DOMAIN final_result : PassesEvery(final_result[k])
            /\ filters = <<>> => Len(passing) = Len(table0)
            /\ \A k \in DOMAIN final_result :
                   \A c \in Range(OutputColumns) :
                       final_result[k][c] = table0[final_result[k]["index"] + 1][c]

C5_Witness ==
    /\ Returned /\ ~neighbor_getter /\ n = 1
    /\ Len(filters) = 2
    /\ Len(final_result) = 1
    /\ Len(target_table) = 2
    /\ target_table[2]["index"] = final_result[1]["index"]
    /\ ~PassesEvery(target_table[1])

\* C6: a second call with identical arguments returns the table the first call
\* returned, also when it is given the DataFrame object the first call processed.
C6_SameResultTwice ==
    (Returned /\ call = 2) => final_result = result1

C6_Witness ==
    /\ Returned /\ call = 2 /\ same_object
    /\ Len(final_result) = 2
    /\ IndexOf(final_result) = <<1, 0>>

\* C7 (as claimed): after a successful call the caller's candidate table has the
\* same rows, order and columns as before; desired_columns gained the three
\* derived names; the filters list is unchanged.
C7_OnlyColumnsExtended ==
    Returned =>
        /\ target_table = table0
        /\ desired_columns = OutputColumns \o DerivedColumns
        /\ filters = filters0

\* C7 (amended): after a successful call desired_columns gained the three derived
\* names and the filters list is unchanged; the caller's candidate table holds
\* the same rows with their index labels and original values, but in rank order
\* and with the four derived columns added in place.
C7_InputsAfterCall ==
    Returned =>
        /\ desired_columns = OutputColumns \o DerivedColumns
        /\ filters = filters0
        /\ Len(target_table) = Len(table0)
        /\ \A j \in DOMAIN table0 :
               \E k \in DOMAIN target_table :
                   /\ \A c \in DOMAIN table0[j] : target_table[k][c] = table0[j][c]
                   /\ DOMAIN target_table[k] =
                          DOMAIN table0[j] \cup Range(DerivedColumns) \cup {"delta_sun_RA"}
        /\ \A j, k \in DOMAIN target_table :
               j < k => ~RowBefore(target_table[k], target_table[j],
                                   <<"abs_delta_sun_RA_floor", "abs_delta_dec_lat">>)

C7_Witness ==
    /\ Returned
    /\ Len(table0) = 2
    /\ IndexOf(target_table) # IndexOf(table0)
    /\ Len(local_table) < Len(target_table)

\* C8: a date that does not parse fails the call at its first step: nothing is
\* returned, the table and desired_columns are as they were, the neighbor
\* function was never called; and the call goes no further.
C8_BadDateFailsFirst ==
    /\ pc = "raised" =>
           /\ ~Parses(observation_date)
           /\ final_result = <<>>
           /\ target_table = table0
           /\ desired_columns = OutputColumns
           /\ calls = <<>> /\ printed = 0
           /\ ~ENABLED Next
    /\ ~Parses(observation_date) => pc \in {"parse", "raised"}

C8_Witness ==
    /\ pc = "raised"
    /\ Len(table0) = 2
    /\ neighbor_getter
    /\ observation_date[1] = "-"

\* C9: with a neighbor function the rows are scanned in rank order, each at most
\* once, none after the n-th kept row, and the result is exactly the first n rows
\* with a non-zero count, in that order.
C9_ScanInRankOrder ==
    (neighbor_getter /\ pc \in {"scan", "loc", "rename", "done"}) =>
        /\ calls = SubSeq(IndexOf(local_table), 1, Len(calls))
        /\ n <= 0 => calls = <<>>
        /\ with_neighbor = IndexOf(Take(Qualifying, Len(with_neighbor)))
        /\ Len(with_neighbor) <= Max(n, 0)
        /\ (Len(with_neighbor) = n /\ n >= 1) => calls[Len(calls)] = with_neighbor[n]
        /\ Returned => IndexOf(final_result) = IndexOf(Take(Qualifying, n))

C9_Witness ==
    /\ Returned /\ neighbor_getter /\ n = 1
    /\ Len(local_table) = 2
    /\ Len(calls) = 1
    /\ Len(final_result) = 1
    /\ Qualifies(local_table[2])

\* C10: in neighbor mode a scan that has started always ends with the call
\* returning a table: the rows collected, with the diagnostic printed once when
\* the filtered table was exhausted with fewer than n rows kept (fewer than n of
\* its rows have a non-zero count) and not printed otherwise.
C10_ScanTerminates ==
    (pc = "scan") ~>
        (/\ Returned
         /\ printed = (IF Len(Qualifying) < n THEN 1 ELSE 0)
         /\ printed = 1 => (it = Len(local_table) /\ Len(with_neighbor) < n)
         /\ IndexOf(final_result) = with_neighbor)

C10_Witness ==
    /\ Returned /\ neighbor_getter /\ n = 2
    /\ printed = 1
    /\ Len(final_result) = 1

====
